---------------------------- MODULE Spec2Model ----------------------------
(***************************************************************************)
(* Model of run-gen-fractal-julia.py: the FractalJulia renderer            *)
(* (constructor, generate, the two colour schemes) and the two iteration   *)
(* functions of FunctionList.                                              *)
(*                                                                         *)
(* Numbers.  Grid bounds, the constant and the threshold are drawn from    *)
(* integers, and Init keeps the grids whose pixel pitch (max-min)/size is  *)
(* a whole number.  On these inputs every sample point and every iterate   *)
(* is a Gaussian integer, so Python's float/complex arithmetic in the      *)
(* escape loop is exact and is modelled by integer arithmetic on pairs     *)
(* <<re, im>>.  Colour channels are rationals <<num, den>> in lowest       *)
(* terms; binary64 rounding of a channel (h / 60 in scheme 1) is not       *)
(* modelled.                                                               *)
(***************************************************************************)
EXTENDS Integers, Sequences, FiniteSets, TLC

VARIABLES cfg, pc, shape, image, x, y, z, temp1, c, color, err,
          writes, value, prev, step

vars == <<cfg, pc, shape, image, x, y, z, temp1, c, color, err,
          writes, value, prev, step>>

\* writes is a history variable: how many times each buffer cell was assigned
renderVars == <<shape, image, x, y, z, temp1, c, err, writes>>

(* ------------------------------ bounds -------------------------------- *)

\* largest image width and height drawn
MaxDim == 2
\* largest iteration cap drawn for a render
MaxIter == 3
\* largest iteration cap drawn when the colour schemes are called directly
MaxRampIter == 9
\* largest iteration count handed to a colour scheme
MaxValue == 725

\* grid bounds [x_min, y_min, x_max, y_max] are drawn from these
GridMin == {-1, 0}
GridMax == {0, 1, 2}
\* thresholds (zmax) drawn
Thresholds == {1, 4}
\* constants drawn: 0, 1 and i
Constants == {<<0, 0>>, <<1, 0>>, <<0, 1>>}
\* colour-scheme selectors drawn; 3 is not a scheme
Schemes == {1, 2, 3}
Functions == {"func_z2pc", "func_z3pc"}

(* ---------------------------- arithmetic ------------------------------ *)

Abs(n) == IF n < 0 THEN -n ELSE n

RECURSIVE GCD(_, _)
GCD(a, b) == IF b = 0 THEN a ELSE GCD(b, a % b)

\* the rational n/d (d # 0) in lowest terms with a positive denominator
Rat(n, d) ==
    LET g == GCD(Abs(n), Abs(d))
        s == IF d < 0 THEN -1 ELSE 1
    IN  <<(s * n) \div g, (s * d) \div g>>

RInt(n) == <<n, 1>>
RAdd(a, b) == Rat(a[1] * b[2] + b[1] * a[2], a[2] * b[2])
RSub(a, b) == Rat(a[1] * b[2] - b[1] * a[2], a[2] * b[2])
RMul(a, b) == Rat(a[1] * b[1], a[2] * b[2])
RAbs(a) == <<Abs(a[1]), a[2]>>
RLess(a, b) == a[1] * b[2] < b[1] * a[2]
RLeq(a, b) == a[1] * b[2] <= b[1] * a[2]
\* Python's a % m for a rational a and an integer m > 0
RMod(a, m) == Rat(a[1] - m * a[2] * (a[1] \div (m * a[2])), a[2])
\* Python's int(a): truncation toward zero
Trunc(a) == IF a[1] >= 0 THEN a[1] \div a[2] ELSE -((-a[1]) \div a[2])

\* complex numbers with integer parts
CAdd(a, b) == <<a[1] + b[1], a[2] + b[2]>>
CMul(a, b) == <<a[1] * b[1] - a[2] * b[2], a[1] * b[2] + a[2] * b[1]>>

(* --------------------------- FunctionList ----------------------------- *)


\* variant: the constant argument is dropped and 1 is added
func_z2pc_fixed(zz, cc) == CAdd(CMul(zz, zz), <<1, 0>>)

func_z2pc(zz, cc) == CAdd(CMul(zz, zz), cc)

func_z3pc(zz, cc) == CAdd(CMul(CMul(zz, zz), zz), cc)

\* self.function(temp1, self.constant)
Apply(f, zz, cc) == IF f = "func_z2pc" THEN func_z2pc(zz, cc) ELSE func_z3pc(zz, cc)

(* --------------------------- colour schemes --------------------------- *)


\* variant: the hue is not reduced modulo 360
generate_color_scheme1_nomod(v) ==
    LET h == v
        X == RSub(RInt(1), RAbs(RSub(RMod(Rat(h, 60), 2), RInt(1))))
    IN  IF h >= 0 /\ h < 60 THEN <<RInt(1), X, RInt(0)>>
        ELSE IF h >= 60 /\ h < 120 THEN <<X, RInt(1), RInt(0)>>
        ELSE IF h >= 120 /\ h < 180 THEN <<RInt(0), RInt(1), X>>
        ELSE IF h >= 180 /\ h < 240 THEN <<RInt(0), X, RInt(1)>>
        ELSE IF h >= 240 /\ h < 300 THEN <<X, RInt(0), RInt(1)>>
        ELSE IF h >= 300 /\ h < 360 THEN <<RInt(1), RInt(0), X>>
        ELSE <<RInt(0), RInt(0), RInt(0)>>

generate_color_scheme1(v) ==
    LET h == v % 360
        X == RSub(RInt(1), RAbs(RSub(RMod(Rat(h, 60), 2), RInt(1))))
    IN  IF h >= 0 /\ h < 60 THEN <<RInt(1), X, RInt(0)>>
        ELSE IF h >= 60 /\ h < 120 THEN <<X, RInt(1), RInt(0)>>
        ELSE IF h >= 120 /\ h < 180 THEN <<RInt(0), RInt(1), X>>
        ELSE IF h >= 180 /\ h < 240 THEN <<RInt(0), X, RInt(1)>>
        ELSE IF h >= 240 /\ h < 300 THEN <<X, RInt(0), RInt(1)>>
        ELSE IF h >= 300 /\ h < 360 THEN <<RInt(1), RInt(0), X>>
        ELSE <<RInt(0), RInt(0), RInt(0)>>


\* variant: the ramp is not clamped at 1
generate_color_scheme2_noclamp(v, iterations) ==
    LET i == RMul(Rat(v + 1, iterations), RInt(2))
    IN  <<i, i, i>>

generate_color_scheme2(v, iterations) ==
    LET i0 == RMul(Rat(v + 1, iterations), RInt(2))
        i == IF RLess(RInt(1), i0) THEN RInt(1) ELSE i0
    IN  <<i, i, i>>

\* the else branch calls scheme 2 and drops its result: the call returns None
generate_color(k, v) ==
    IF k.scheme = 1 THEN generate_color_scheme1(v)
    ELSE IF k.scheme = 2 THEN generate_color_scheme2(v, k.iterations)
    ELSE "None"

(* ----------------------------- the render ----------------------------- *)


\* variant: the real part is scaled by the image height
z_r_height(k, px) == k.minx + (px * (k.maxx - k.minx)) \div k.image_height

\* z_r of line 86 and z_i of line 88; Init makes the division exact
z_r(k, px) == k.minx + (px * (k.maxx - k.minx)) \div k.image_width
z_i(k, py) == k.miny + (py * (k.maxy - k.miny)) \div k.image_height

\* rad of line 95
Rad(t, z0) == (t[1] - z0[1]) * (t[1] - z0[1]) + (t[2] - z0[2]) * (t[2] - z0[2])


\* variant: the channel is rounded to the nearest integer
QuantizeRound(ch) == Trunc(RAdd(RMul(ch, RInt(255)), Rat(1, 2)))

\* int(color[k] * 255)
Quantize(ch) == Trunc(RMul(ch, RInt(255)))


\* variant: the buffer starts filled with ones
Ones(k) == [i \in 0..(k.image_height - 1) |->
               [j \in 0..(k.image_width - 1) |-> <<1, 1, 1>>]]

\* np.zeros((image_height, image_width, 3), dtype=np.uint8)
Zeros(k) == [i \in 0..(k.image_height - 1) |->
                [j \in 0..(k.image_width - 1) |-> <<0, 0, 0>>]]

\* whether image[a, b, _] is inside the allocated array
InBounds(a, b) == a < shape[1] /\ b < shape[2]

\* whole-number pixel pitch (see the header); a size of 0 never divides
Exact(lo, hi, n) == n = 0 \/ (hi - lo) % n = 0

Configs ==
    {k \in [image_width : 0..MaxDim, image_height : 0..MaxDim,
            minx : GridMin, miny : GridMin, maxx : GridMax, maxy : GridMax,
            iterations : 0..MaxIter, constant : Constants,
            function : Functions, zmax : Thresholds, scheme : Schemes] :
        /\ Exact(k.minx, k.maxx, k.image_width)
        /\ Exact(k.miny, k.maxy, k.image_height)}

\* FractalJulia.__init__ stores its arguments and checks nothing
Init ==
    /\ cfg \in Configs
    /\ pc = "start"
    /\ shape = <<0, 0>>
    /\ image = <<>>
    /\ writes = <<>>
    /\ x = 0 /\ y = 0
    /\ z = <<0, 0>> /\ temp1 = <<0, 0>>
    /\ c = 0
    /\ color = "unbound"
    /\ err = "none"
    /\ value = 0 /\ prev = "unbound" /\ step = 0

\* lines 81-84: allocate the buffer and enter the loops; with no pixel to
\* visit the loops fall through to the return of line 106
Generate ==
    /\ pc = "start"
    /\ shape' = <<cfg.image_height, cfg.image_width>>
    /\ image' = Zeros(cfg)
    /\ writes' = [i \in 0..(cfg.image_height - 1) |->
                    [j \in 0..(cfg.image_width - 1) |-> 0]]
    /\ x' = 0 /\ y' = 0
    /\ pc' = IF cfg.image_width > 0 /\ cfg.image_height > 0 THEN "pixel" ELSE "done"
    /\ UNCHANGED <<cfg, z, temp1, c, color, err, value, prev, step>>


\* variant: the colour is reset to black at the start of every pixel
BeginPixelReset ==
    /\ pc = "pixel"
    /\ z' = <<z_r(cfg, x), z_i(cfg, y)>>
    /\ temp1' = <<z_r(cfg, x), z_i(cfg, y)>>
    /\ c' = 0
    /\ color' = <<RInt(0), RInt(0), RInt(0)>>
    /\ pc' = IF cfg.iterations >= 1 THEN "iter" ELSE "write"
    /\ UNCHANGED <<cfg, shape, image, writes, x, y, err, value, prev, step>>

\* lines 86-93: map the pixel to its sample and start the escape loop; c = 0
\* stands for the fresh range(1, iterations + 1)
BeginPixel ==
    /\ pc = "pixel"
    /\ z' = <<z_r(cfg, x), z_i(cfg, y)>>
    /\ temp1' = <<z_r(cfg, x), z_i(cfg, y)>>
    /\ c' = 0
    /\ pc' = IF cfg.iterations >= 1 THEN "iter" ELSE "write"
    /\ UNCHANGED <<cfg, shape, image, writes, x, y, color, err, value, prev, step>>

\* lines 93-99: one pass of the escape loop
Iterate ==
    /\ pc = "iter"
    /\ LET t == Apply(cfg.function, temp1, cfg.constant)
           rad == Rad(t, z)
       IN  /\ c' = c + 1
           /\ temp1' = t
           /\ IF rad > cfg.zmax
              THEN color' = generate_color(cfg, c + 1) /\ pc' = "write"
              ELSE color' = color
                   /\ pc' = IF c + 1 < cfg.iterations THEN "iter" ELSE "write"
    /\ UNCHANGED <<cfg, shape, image, writes, x, y, z, err, value, prev, step>>

\* the loop headers of lines 84 and 87 after pixel (x, y)
Advance ==
    /\ IF y + 1 < cfg.image_height
       THEN x' = x /\ y' = y + 1 /\ pc' = "pixel"
       ELSE x' = x + 1 /\ y' = 0
            /\ pc' = IF x + 1 < cfg.image_width THEN "pixel" ELSE "done"

\* lines 101-104, then the next pixel or the return of line 106
Write ==
    /\ pc = "write"
    /\ IF ~InBounds(x, y)
       THEN pc' = "error" /\ err' = "IndexError" /\ UNCHANGED <<image, writes, x, y>>
       ELSE IF image[x][y][2] # 0
       THEN Advance /\ UNCHANGED <<image, writes, err>>
       ELSE IF color = "unbound"
       THEN pc' = "error" /\ err' = "UnboundLocalError" /\ UNCHANGED <<image, writes, x, y>>
       ELSE IF color = "None"
       THEN pc' = "error" /\ err' = "TypeError" /\ UNCHANGED <<image, writes, x, y>>
       ELSE /\ image' = [image EXCEPT ![x][y] =
                           <<Quantize(color[1]), Quantize(color[2]), Quantize(color[3])>>]
            /\ writes' = [writes EXCEPT ![x][y] = @ + 1]
            /\ Advance
            /\ err' = err
    /\ UNCHANGED <<cfg, shape, z, temp1, c, color, value, prev, step>>

Next == Generate \/ BeginPixel \/ Iterate \/ Write

Spec == Init /\ [][Next]_vars

(* ------------------- the colour mapper called directly ----------------- *)

ColorConfigs ==
    {k \in [image_width : {1}, image_height : {1},
            minx : {0}, miny : {0}, maxx : {1}, maxy : {1},
            iterations : 1..MaxRampIter, constant : {<<0, 0>>},
            function : {"func_z2pc"}, zmax : {4}, scheme : Schemes] : TRUE}

InitColor ==
    /\ cfg \in ColorConfigs
    /\ pc = "arg"
    /\ value = 1 /\ prev = "unbound" /\ step = 0
    /\ color = "unbound"
    /\ shape = <<0, 0>> /\ image = <<>> /\ writes = <<>>
    /\ x = 0 /\ y = 0 /\ z = <<0, 0>> /\ temp1 = <<0, 0>> /\ c = 0
    /\ err = "none"

\* color = self.__generate_color__(value)
ColorCall ==
    /\ pc = "arg"
    /\ color' = generate_color(cfg, value)
    /\ pc' = "ret"
    /\ UNCHANGED <<cfg, value, prev, step>>
    /\ UNCHANGED renderVars

\* the caller keeps the result and moves to the next count, or one period on
ColorNext ==
    /\ pc = "ret"
    /\ \E d \in {1, 360} :
          /\ value + d <= MaxValue
          /\ value' = value + d
          /\ step' = d
    /\ prev' = color
    /\ pc' = "arg"
    /\ UNCHANGED <<cfg, color>>
    /\ UNCHANGED renderVars

NextColor == ColorCall \/ ColorNext

SpecColor == InitColor /\ [][NextColor]_vars

(* ------------------- vocabulary of the properties --------------------- *)

\* the configurations the specification calls malformed
Malformed(k) ==
    \/ k.image_width <= 0 \/ k.image_height <= 0
    \/ k.minx >= k.maxx \/ k.miny >= k.maxy
    \/ k.iterations < 1
    \/ k.scheme \notin {1, 2}

Valid(k) == ~Malformed(k) /\ k.zmax > 0

Pixels == (0..(cfg.image_width - 1)) \X (0..(cfg.image_height - 1))

\* position of a pixel in scan order: x outer over the width, y inner over the height
ScanIndex(p) == p[1] * cfg.image_height + p[2]

\* the pixels whose visit is over
Visited == IF pc = "start" THEN {} ELSE {p \in Pixels : ScanIndex(p) < ScanIndex(<<x, y>>)}

\* the pixels whose escape loop is over
Looped == Visited \cup (IF pc \in {"write", "error"} THEN {<<x, y>>} ELSE {})

Sample(p) == <<z_r(cfg, p[1]), z_i(cfg, p[2])>>

\* the n-th iterate of the configured function from z0
RECURSIVE Orbit(_, _)
Orbit(z0, n) == IF n = 0 THEN z0 ELSE Apply(cfg.function, Orbit(z0, n - 1), cfg.constant)

\* the smallest count in n..N whose iterate lies farther than the threshold from
\* z0 (squared displacement), 0 when there is none
RECURSIVE EscapeFrom(_, _)
EscapeFrom(z0, n) ==
    IF n > cfg.iterations THEN 0
    ELSE IF Rad(Orbit(z0, n), z0) > cfg.zmax THEN n
    ELSE EscapeFrom(z0, n + 1)

EscapeTime(p) == EscapeFrom(Sample(p), 1)

\* truncation of 255 times each channel
Bytes(col) == <<Trunc(RMul(RInt(255), col[1])), Trunc(RMul(RInt(255), col[2])),
                Trunc(RMul(RInt(255), col[3]))>>

ColorMap(n) ==
    IF cfg.scheme = 1 THEN generate_color_scheme1(n)
    ELSE generate_color_scheme2(n, cfg.iterations)

\* the escaping pixels of a set, and the last of them in scan order
Escaping(S) == {p \in S : EscapeTime(p) # 0}
LastOf(S) == CHOOSE p \in S : \A q \in S : ScanIndex(q) <= ScanIndex(p)
UpTo(p) == {q \in Pixels : ScanIndex(q) <= ScanIndex(p)}

NoCellWritten ==
    pc = "start" \/ \A a \in DOMAIN image : \A b \in DOMAIN image[a] : image[a][b] = <<0, 0, 0>>

(* ------------------------------ claims -------------------------------- *)

\* C1: a malformed configuration is reported as a configuration error before
\* any pixel is computed: generate never enters a pixel's escape loop, never
\* writes a cell and never returns an image for it.
C1_MalformedRejected ==
    Malformed(cfg) => /\ pc \notin {"iter", "write", "done"}
                      /\ NoCellWritten

\* C2: for a valid configuration generate never reaches a runtime error; in
\* particular the write step always finds a colour bound.
C2_NoRuntimeError ==
    Valid(cfg) => /\ err = "none"
                  /\ (pc = "write" => color # "unbound")

\* C3: for W > 0 and H > 0 every access image[x, y] made by generate lies inside
\* the allocated buffer, whose first axis has length W and second axis length H.
C3_AccessInBounds ==
    (cfg.image_width > 0 /\ cfg.image_height > 0) =>
        /\ (pc = "write" => InBounds(x, y))
        /\ err # "IndexError"
        /\ (pc # "start" => shape = <<cfg.image_width, cfg.image_height>>)

\* C4: a pixel that escapes stops iterating at the smallest count c* whose
\* iterate is farther than the threshold from its own starting point, and its
\* cell holds the truncation of 255 times each channel of color_map(c*).
C4_EscapeColor ==
    /\ \A p \in Visited :
          EscapeTime(p) # 0 => image[p[1]][p[2]] = Bytes(ColorMap(EscapeTime(p)))
    /\ (pc \in {"iter", "write"} /\ EscapeFrom(z, 1) # 0) =>
          /\ temp1 = Orbit(z, c)
          /\ (pc = "iter" => c < EscapeFrom(z, 1))
          /\ (pc = "write" => c = EscapeFrom(z, 1) /\ color = generate_color(cfg, c))

C4_Witness ==
    /\ pc = "done"
    /\ \E p \in Visited : EscapeTime(p) = 1
    /\ \E p \in Visited : EscapeTime(p) >= 2

C8_FixedPoint ==
    [][(/\ pc = "iter" /\ cfg.function = "func_z2pc"
        /\ cfg.constant = <<0, 0>> /\ z = <<0, 0>>) =>
          /\ temp1' = <<0, 0>>
          /\ Rad(temp1', z) = 0
          /\ color' = color
          /\ c' <= cfg.iterations
          /\ (pc' = "write" <=> c' = cfg.iterations)]_vars

C8_Witness ==
    /\ pc = "write" /\ cfg.function = "func_z2pc"
    /\ cfg.constant = <<0, 0>> /\ z = <<0, 0>>
    /\ c = cfg.iterations /\ c = MaxIter /\ temp1 = <<0, 0>>
    /\ color # "unbound"

\* C9: the carried colour is the one bound at the most recent escaping pixel in
\* scan order (it changes only there and is never reset), and a pixel that does
\* not escape is written with the colour of the most recent escaping pixel
\* before it.
C9_CarryOver ==
    /\ pc # "start" =>
          color = IF Escaping(Looped) = {} THEN "unbound"
                  ELSE generate_color(cfg, EscapeTime(LastOf(Escaping(Looped))))
    /\ \A p \in Visited :
          EscapeTime(p) = 0 =>
             /\ Escaping(UpTo(p)) # {}
             /\ image[p[1]][p[2]] =
                   Bytes(ColorMap(EscapeTime(LastOf(Escaping(UpTo(p))))))

C9_Witness ==
    /\ pc = "done"
    /\ \E p \in Visited, q \in Visited :
          /\ EscapeTime(p) = 0 /\ p[1] = 1 /\ p[2] = 0
          /\ q = LastOf(Escaping(UpTo(p))) /\ q[1] = 0 /\ q[2] = 0
          /\ EscapeTime(<<0, 1>>) = 0
          /\ image[p[1]][p[2]] = image[0][0]

RMin(a, b) == IF RLeq(a, b) THEN a ELSE b
RMax(a, b) == IF RLeq(a, b) THEN b ELSE a

\* the textbook HSV-to-RGB conversion at saturation 1 and value 1, in its
\* closed form: channel(n) = 1 - max(0, min(k, 4 - k, 1)), k = (n + H/60) mod 6
HsvChannel(n, h) ==
    LET k == RMod(RAdd(RInt(n), Rat(h, 60)), 6)
    IN  RSub(RInt(1), RMax(RInt(0), RMin(RMin(k, RSub(RInt(4), k)), RInt(1))))

HsvToRgb(h) == <<HsvChannel(5, h), HsvChannel(3, h), HsvChannel(1, h)>>

Triple(r, g, b) == <<RInt(r), RInt(g), RInt(b)>>

\* C5: the grayscale scheme returns (i, i, i) with i = min(1, 2*(c+1)/N); it
\* never decreases when the count grows, and it is exactly (1, 1, 1) once
\* c + 1 >= N/2.
C5_GrayRamp ==
    (pc = "ret" /\ cfg.scheme = 2) =>
        /\ color[1] = color[2] /\ color[2] = color[3]
        /\ color[1] = RMin(RInt(1), Rat(2 * (value + 1), cfg.iterations))
        /\ (step # 0 => RLeq(prev[1], color[1]))
        /\ (2 * (value + 1) >= cfg.iterations => color = Triple(1, 1, 1))

C5_Witness ==
    /\ pc = "ret" /\ cfg.scheme = 2 /\ step = 1
    /\ RLess(prev[1], color[1])
    /\ RLess(color[1], RInt(1))
    /\ 2 * (value + 2) >= cfg.iterations

\* C6: the hue scheme has period 360, keeps every channel in [0, 1], and is the
\* standard HSV-to-RGB conversion of hue c mod 360 at saturation 1 and value 1;
\* hues 0, 60, 120, 180, 240, 300 give red, yellow, green, cyan, blue, magenta.
C6_HuePeriodic ==
    (pc = "ret" /\ cfg.scheme = 1) =>
        /\ \A i \in 1..3 : RLeq(RInt(0), color[i]) /\ RLeq(color[i], RInt(1))
        /\ color = HsvToRgb(value % 360)
        /\ (step = 360 => prev = color)
        /\ (value % 360 = 0 => color = Triple(1, 0, 0))
        /\ (value % 360 = 60 => color = Triple(1, 1, 0))
        /\ (value % 360 = 120 => color = Triple(0, 1, 0))
        /\ (value % 360 = 180 => color = Triple(0, 1, 1))
        /\ (value % 360 = 240 => color = Triple(0, 0, 1))
        /\ (value % 360 = 300 => color = Triple(1, 0, 1))

C6_Witness ==
    /\ pc = "ret" /\ cfg.scheme = 1 /\ step = 360
    /\ value = 600 /\ color = Triple(0, 0, 1) /\ prev = color


=============================================================================
